---- MODULE Spec2Model ----
(***************************************************************************)
(* Model of the es-stat terminal dashboard (src/esstat): the refresh cycle  *)
(* of Dashboard.refresh, the scheduler loop _data_fetcher, the UI tick loop *)
(* of printscreen with its key dispatcher, and the key decoder              *)
(* KeyListener.parse_keys.                                                  *)
(*                                                                          *)
(* Time is counted in units of 0.1 s, the shortest sleep of the program.    *)
(* SpecTimed keeps the clock; Spec leaves it out, so that there a sleep or  *)
(* a fetch may end at any moment.                                           *)
(* All tasks run on one asyncio loop: a task runs without interruption      *)
(* from one await to the next, so every action below is the code between    *)
(* two suspension points.                                                   *)
(***************************************************************************)
EXTENDS Integers, Sequences, FiniteSets, TLC

\* ------------------------------------------------------------------ bounds
StartTime == 60        \* wall clock (time.time()) when the process starts
Horizon == 52          \* the clock runs from StartTime to StartTime + Horizon
MaxFetch == 1          \* a cycle's panel fetches take 0..MaxFetch time units
MaxCycles == 2         \* refresh cycles started in one run
MaxRows == 1           \* rows of a fetched settings payload
MaxQueue == 1          \* raw input units waiting in the listener's queue
MaxInput == 2          \* raw input units typed in one run
NumCallers == 3        \* concurrent callers of Dashboard.refresh (SpecCallers)
MaxLen == 4            \* length of a raw character sequence (SpecKeys)
MaxSettings == 2       \* rows of a fetched settings payload (SpecEdit)
MaxBatch == 3          \* key presses handled by one tick (SpecDispatch)
MaxStarts == 2         \* successful calls of KeyListener.start (SpecListener)

\* ------------------------------------------------------- program constants
refresh_interval == 50 \* Dashboard.refresh_interval: 5 s
MinSleep == 1          \* max(0.1, ...) in _data_fetcher: 0.1 s
UiSleep == 1           \* asyncio.sleep(0.1) of the tick loop

NoTime == 0 - 1

Max(a, b) == IF a >= b THEN a ELSE b

\* The sequences over S of length up to n.
RECURSIVE SeqsUpTo(_, _)
SeqsUpTo(S, n) ==
    IF n = 0 THEN {<<>>}
    ELSE LET shorter == SeqsUpTo(S, n - 1)
         IN shorter \cup {Append(q, ch) : q \in shorter, ch \in S}

\* ------------------------------------------------------------------- state
VARIABLES
    clock,               \* whether this specification keeps the time
    stdin,               \* sys.stdin: a terminal or not, the loop's add_reader
    key_listener,        \* key_listener of printscreen
    _active,             \* KeyListener._active
    readers,             \* the loop's reader for stdin: registered or not,
                         \* add_reader and remove_reader calls so far
    now,                 \* time.time()
    _cached_data,        \* Dashboard._cached_data
    _data_lock,          \* Dashboard._data_lock (asyncio.Lock)
    _data_ready,         \* Dashboard._data_ready
    _last_refresh_time,  \* Dashboard._last_refresh_time
    _is_refreshing,      \* Dashboard._is_refreshing
    _error_message,      \* Dashboard._error_message
    _show_help,          \* Dashboard._show_help
    _paused,             \* Dashboard._paused
    _edit_mode,          \* Dashboard._edit_mode
    _selected_row,       \* Dashboard._selected_row
    layout,              \* what each panel of Dashboard.layout shows
    shutdown_event,      \* asyncio.Event of printscreen
    refreshPc,           \* each caller's place inside Dashboard.refresh
    cycleOf,             \* the number of the cycle each caller is running
    cycles,              \* refresh cycles started so far
    fetchDue,            \* latest time the running cycle's fetches complete
    schedPc,             \* place of the _data_fetcher task
    schedWake,           \* when the _data_fetcher sleep ends
    schedDelay,          \* the sleep_time of that sleep
    uiPc,                \* place of the tick loop of printscreen
    uiWake,              \* when the tick loop's sleep ends
    lastTimer,           \* the task whose sleep was started last
    _queue,              \* KeyListener._queue
    _escape_buffer,      \* KeyListener._escape_buffer
    typed,               \* raw input units read so far (SpecDrain: callbacks run)
    input,               \* SpecKeys: the raw character sequence
    pos,                 \* SpecKeys: characters handed to parse_keys so far
    keysOut,             \* SpecKeys: key events returned so far
    hist                 \* record of past events the properties refer to

vars == <<clock, stdin, key_listener, _active, readers, now, _cached_data, _data_lock, _data_ready, _last_refresh_time,
          _is_refreshing, _error_message, _show_help, _paused, _edit_mode,
          _selected_row, layout, shutdown_event, refreshPc, cycleOf, cycles,
          fetchDue, schedPc, schedWake, schedDelay, uiPc, uiWake, lastTimer,
          _queue, _escape_buffer, typed, input, pos, keysOut, hist>>

dashVars == <<_cached_data, _data_lock, _data_ready, _last_refresh_time,
              _is_refreshing, refreshPc, cycleOf, cycles, fetchDue>>
uiVars == <<_show_help, _paused, _edit_mode, _selected_row>>
keyVars == <<input, pos, keysOut>>

\* ---------------------------------------------------------------- payloads
Panels == <<"status", "settings", "recov", "reloc">>
PanelKeys == {Panels[i] : i \in 1..Len(Panels)}

\* A payload: the cycle that fetched it, the number of its entries and
\* whether it carries a (non-empty) cluster_name.
Payload(c, r, n) == [kind |-> "data", cycle |-> c, rows |-> r, name |-> n]
Absent == [kind |-> "absent", cycle |-> 0, rows |-> 0, name |-> FALSE]
Blank == [kind |-> "blank", cycle |-> 0, rows |-> 0, name |-> FALSE]
HelpPanel == [kind |-> "help", cycle |-> 0, rows |-> 0, name |-> FALSE]

\* What one cycle's four fetches give: raised says some fetch task raised,
\* the other fields are the values returned.
StatusResults == {[rows |-> 0, name |-> FALSE], [rows |-> 1, name |-> FALSE],
                  [rows |-> 1, name |-> TRUE]}
FetchResults ==
    [raised : {FALSE}, status : StatusResults,
     settings : IF clock THEN {1} ELSE 0..MaxRows, recov : {1}, reloc : {1}]
    \cup [raised : {TRUE}, status : {[rows |-> 0, name |-> FALSE]},
          settings : {0}, recov : {0}, reloc : {0}]

ResultOf(res, k, c) ==
    IF k = "status" THEN Payload(c, res.status.rows, res.status.name)
    ELSE IF k = "settings" THEN Payload(c, res.settings, FALSE)
    ELSE IF k = "recov" THEN Payload(c, res.recov, FALSE)
    ELSE Payload(c, res.reloc, FALSE)


\* ----------------------------------------------------- Dashboard.refresh
Sched == 0                       \* the _data_fetcher task as a caller
Callers == 1..NumCallers         \* further callers (SpecCallers)
AllCallers == {Sched} \cup Callers

\* asyncio.Lock.acquire takes the lock at once only when it is free and
\* nobody waits for it.
CanAcquireNoGuard == TRUE
CanAcquire == ~_data_lock.locked /\ _data_lock.waiters = <<>>

\* for spec in specs: self._cached_data[spec.key] = tasks[spec.key].result()
CommitCacheStatusOnly(cache, res, c) ==
    [cache EXCEPT !["status"] = ResultOf(res, "status", c)]
CommitCache(cache, res, c) ==
    [k \in PanelKeys |-> ResultOf(res, k, c)]

\* not (not status_data or not status_data.get("cluster_name"))
ValidData(cache) == cache["status"].rows > 0 /\ cache["status"].name

\* The cache a cycle leaves: untouched when a fetch task raised (the
\* TaskGroup re-raises before the copy loop), else the fetched results,
\* written before they are validated.
CacheAfter(res, c) ==
    IF res.raised THEN _cached_data ELSE CommitCache(_cached_data, res, c)

RefreshOkUnvalidated(res, c) == ~res.raised
RefreshOk(res, c) == ~res.raised /\ ValidData(CacheAfter(res, c))

\* How the start of a cycle lies to the end of the attempt before it: one
\* refresh interval after it, earlier or later.
Compare(t, end) ==
    IF end = NoTime THEN "first"
    ELSE IF t < end + refresh_interval THEN "early"
    ELSE IF t = end + refresh_interval THEN "on time"
    ELSE "late"

\* The cycle proper begins: the lock is held, the fetch tasks are created.
StartCycle(c) ==
    /\ cycles < MaxCycles
    /\ cycles' = cycles + 1
    /\ cycleOf' = [cycleOf EXCEPT ![c] = cycles + 1]
    /\ refreshPc' = [refreshPc EXCEPT ![c] = "fetching"]
    /\ fetchDue' = now + MaxFetch
    /\ hist' = [hist EXCEPT !.pausedAtStart = _paused,
                            !.startedAt = Compare(now, hist.lastEnd),
                            !.skippedBefore = hist.skipped,
                            !.resumeGap = IF hist.resumedAt = NoTime THEN NoTime
                                          ELSE now - hist.resumedAt,
                            !.skipped = FALSE,
                            !.resumedAt = NoTime]

\* refresh up to its first suspension: the flag, then the lock.
RefreshEnter(c) ==
    /\ refreshPc[c] = "idle"
    /\ _is_refreshing' = TRUE
    /\ IF CanAcquire
       THEN /\ _data_lock' = [_data_lock EXCEPT !.locked = TRUE]
            /\ StartCycle(c)
       ELSE /\ _data_lock' = [_data_lock EXCEPT !.waiters = Append(@, c)]
            /\ refreshPc' = [refreshPc EXCEPT ![c] = "waiting"]
            /\ UNCHANGED <<cycles, cycleOf, fetchDue, hist>>
    /\ UNCHANGED <<_cached_data, _data_ready, _last_refresh_time>>

\* A waiter woken by release() resumes inside acquire().
RemoveFirst(s, c) ==
    LET i == CHOOSE j \in 1..Len(s) : s[j] = c
    IN SubSeq(s, 1, i - 1) \o SubSeq(s, i + 1, Len(s))

LockResume(c) ==
    /\ refreshPc[c] = "waiting"
    /\ c \in _data_lock.woken
    /\ _data_lock' = [locked |-> TRUE,
                      waiters |-> RemoveFirst(_data_lock.waiters, c),
                      woken |-> _data_lock.woken \ {c}]
    /\ StartCycle(c)
    /\ UNCHANGED <<_cached_data, _data_ready, _last_refresh_time, _is_refreshing>>

\* asyncio.Lock.release: unlock and wake the first waiter.
ReleasedNever(lock) == lock
Released(lock) ==
    [lock EXCEPT !.locked = FALSE,
                 !.woken = IF lock.waiters = <<>> THEN @
                           ELSE @ \cup {Head(lock.waiters)}]

\* if not self._data_ready: self._data_ready = True, reached only by a
\* cycle that passed the validation.
DataReadyAfterLastOutcome(ok) == ok
DataReadyAfter(ok) == _data_ready \/ ok

\* refresh from the end of the fetches to its return or raise.
RefreshFinish(c, res) ==
    /\ refreshPc[c] = "fetching"
    /\ _cached_data' = CacheAfter(res, cycleOf[c])
    /\ _data_ready' = DataReadyAfter(RefreshOk(res, cycleOf[c]))
    /\ _last_refresh_time' =
          IF RefreshOk(res, cycleOf[c]) THEN now ELSE _last_refresh_time
    /\ _data_lock' = Released(_data_lock)
    /\ _is_refreshing' = FALSE
    /\ refreshPc' = [refreshPc EXCEPT ![c] = "idle"]
    /\ fetchDue' = 0
    /\ UNCHANGED <<cycles, cycleOf>>

HistEnd(h, res, c) ==
    [h EXCEPT !.lastOutcome = IF RefreshOk(res, cycleOf[c]) THEN "ok" ELSE "failed",
              !.lastEnd = now,
              !.lastCycle = cycleOf[c],
              !.lastGood = IF RefreshOk(res, cycleOf[c])
                           THEN CacheAfter(res, cycleOf[c]) ELSE @,
              !.pausedAtStart = FALSE,
              !.startedAt = "none",
              !.skippedBefore = FALSE,
              !.resumeGap = NoTime]


\* -------------------------------------------------- KeyListener.parse_keys
ESC == "ESC"                     \* the character "\x1b"

\* The characters the decoder tells apart, and a plain one.
KeyChars == {ESC, "[", "A", "B", "C", "D", "x"}

\* The third character of an arrow sequence and its key event.
ArrowNameSwapped(ch) ==
    CASE ch = "A" -> "UP" [] ch = "B" -> "DOWN"
      [] ch = "C" -> "LEFT" [] ch = "D" -> "RIGHT" [] OTHER -> "none"
ArrowName(ch) ==
    CASE ch = "A" -> "UP" [] ch = "B" -> "DOWN"
      [] ch = "C" -> "RIGHT" [] ch = "D" -> "LEFT" [] OTHER -> "none"

\* The while loop of parse_keys from index i (1-based) with the keys
\* gathered so far: the key events and the new _escape_buffer.
RECURSIVE ParseFromSkipUnknown(_, _, _)
ParseFromSkipUnknown(chars, i, keys) ==
    IF i > Len(chars) THEN [keys |-> keys, buf |-> <<>>]
    ELSE IF chars[i] = ESC
    THEN IF i + 1 <= Len(chars) /\ chars[i + 1] = "["
         THEN IF i + 2 <= Len(chars)
              THEN IF ArrowName(chars[i + 2]) # "none"
                   THEN ParseFromSkipUnknown(chars, i + 3,
                                  Append(keys, ArrowName(chars[i + 2])))
                   ELSE ParseFromSkipUnknown(chars, i + 3, keys)
              ELSE [keys |-> keys, buf |-> SubSeq(chars, i, Len(chars))]
         ELSE IF i + 1 > Len(chars)
         THEN [keys |-> keys, buf |-> SubSeq(chars, i, Len(chars))]
         ELSE ParseFromSkipUnknown(chars, i + 1, Append(keys, chars[i]))
    ELSE ParseFromSkipUnknown(chars, i + 1, Append(keys, chars[i]))
RECURSIVE ParseFrom(_, _, _)
ParseFrom(chars, i, keys) ==
    IF i > Len(chars) THEN [keys |-> keys, buf |-> <<>>]
    ELSE IF chars[i] = ESC
    THEN IF i + 1 <= Len(chars) /\ chars[i + 1] = "["
         THEN IF i + 2 <= Len(chars)
              THEN IF ArrowName(chars[i + 2]) # "none"
                   THEN ParseFrom(chars, i + 3,
                                  Append(keys, ArrowName(chars[i + 2])))
                   ELSE ParseFrom(chars, i + 1, Append(keys, chars[i]))
              ELSE [keys |-> keys, buf |-> SubSeq(chars, i, Len(chars))]
         ELSE IF i + 1 > Len(chars)
         THEN [keys |-> keys, buf |-> SubSeq(chars, i, Len(chars))]
         ELSE ParseFrom(chars, i + 1, Append(keys, chars[i]))
    ELSE ParseFrom(chars, i + 1, Append(keys, chars[i]))

\* parse_keys(chars) with _escape_buffer = buf: the buffer is put in front
\* of the batch and emptied before the scan.
parse_keysNoCarry(buf, chars) == ParseFrom(chars, 1, <<>>)
parse_keysBufferLast(buf, chars) == ParseFrom(chars \o buf, 1, <<>>)
parse_keys(buf, chars) == ParseFrom(buf \o chars, 1, <<>>)

\* ------------------------------------------------- Dashboard, the UI state
\* str.lower() on the key events that occur.
LowerIdentity(k) == k
Lower(k) ==
    CASE k = "Q" -> "q" [] k = "H" -> "h" [] k = "P" -> "p" [] k = "E" -> "e"
      [] k = "A" -> "a" [] k = "B" -> "b" [] k = "C" -> "c" [] k = "D" -> "d"
      [] k = "UP" -> "up" [] k = "DOWN" -> "down" [] k = "LEFT" -> "left"
      [] k = "RIGHT" -> "right" [] k = ESC -> ESC [] OTHER -> k

\* The part of the state the dispatcher works on, as one record.
\* renders lists, for each key event handled, whether the dispatcher
\* called live.update for it.
UiState == [help |-> _show_help, paused |-> _paused, edit |-> _edit_mode,
            sel |-> _selected_row, quit |-> shutdown_event, layout |-> layout,
            renders |-> <<>>]

\* len(self._cached_data.get("settings", {}))
SettingsRows == _cached_data["settings"].rows

\* update_ui: nothing before the first data; else every panel but a status
\* panel hidden by the help is drawn from the cache.
update_ui(st) ==
    IF ~_data_ready THEN st
    ELSE [st EXCEPT !.layout =
            [k \in PanelKeys |->
                IF k = "status" /\ st.help THEN st.layout[k]
                ELSE IF _cached_data[k].kind = "absent" THEN Payload(0, 0, FALSE)
                ELSE _cached_data[k]]]

\* toggle_help with _update_status_panel
toggle_helpLeavesEdit(st) ==
    [st EXCEPT !.help = ~st.help,
               !.edit = FALSE,
               !.layout = IF ~st.help
                          THEN [st.layout EXCEPT !["status"] = HelpPanel]
                          ELSE st.layout]
toggle_help(st) ==
    [st EXCEPT !.help = ~st.help,
               !.layout = IF ~st.help
                          THEN [st.layout EXCEPT !["status"] = HelpPanel]
                          ELSE st.layout]

toggle_pause(st) == [st EXCEPT !.paused = ~st.paused]

toggle_edit_modeKeepRow(st) == [st EXCEPT !.edit = ~st.edit]
toggle_edit_mode(st) ==
    [st EXCEPT !.edit = ~st.edit, !.sel = IF ~st.edit THEN 0 ELSE st.sel]

move_selection_upUnguarded(st) ==
    IF SettingsRows = 0 THEN st
    ELSE [st EXCEPT !.sel = (st.sel - 1) % SettingsRows]
move_selection_up(st) ==
    IF ~st.edit \/ SettingsRows = 0 THEN st
    ELSE [st EXCEPT !.sel = (st.sel - 1) % SettingsRows]

move_selection_downNoWrap(st) ==
    IF ~st.edit \/ SettingsRows = 0 THEN st
    ELSE [st EXCEPT !.sel = IF st.sel + 1 >= SettingsRows THEN st.sel
                            ELSE st.sel + 1]
move_selection_down(st) ==
    IF ~st.edit \/ SettingsRows = 0 THEN st
    ELSE [st EXCEPT !.sel = (st.sel + 1) % SettingsRows]

\* get_selected_setting(...) is not None
HasSelectedSetting(st) ==
    st.edit /\ SettingsRows > 0 /\ 0 <= st.sel /\ st.sel < SettingsRows

\* live.update(dashboard.get_renderable()) at the end of a branch, or a
\* branch without it.
Rendered(st) == [st EXCEPT !.renders = Append(@, TRUE)]
NotRendered(st) == [st EXCEPT !.renders = Append(@, FALSE)]

\* One key event of _handle_key_events, quit apart.
ApplyKey(key, st) ==
    IF Lower(key) = "h" THEN Rendered(toggle_help(st))
    ELSE IF Lower(key) = "p" THEN Rendered(toggle_pause(st))
    ELSE IF Lower(key) = "e" THEN Rendered(toggle_edit_mode(st))
    ELSE IF key = "UP" /\ st.edit
    THEN Rendered(update_ui(move_selection_up(st)))
    ELSE IF key = "DOWN" /\ st.edit
    THEN Rendered(update_ui(move_selection_down(st)))
    ELSE IF key = "\r" \/ key = "\n"
    THEN IF st.edit /\ HasSelectedSetting(st)
         THEN Rendered(toggle_edit_mode(st))
         ELSE NotRendered(st)
    ELSE NotRendered(st)

\* The for loop of _handle_key_events: quit sets the event and breaks.
RECURSIVE DispatchNoBreak(_, _)
DispatchNoBreak(keys, st) ==
    IF keys = <<>> THEN st
    ELSE IF Lower(Head(keys)) = "q"
    THEN DispatchNoBreak(Tail(keys), [NotRendered(st) EXCEPT !.quit = TRUE])
    ELSE DispatchNoBreak(Tail(keys), ApplyKey(Head(keys), st))
RECURSIVE Dispatch(_, _)
Dispatch(keys, st) ==
    IF keys = <<>> THEN st
    ELSE IF Lower(Head(keys)) = "q" THEN [NotRendered(st) EXCEPT !.quit = TRUE]
    ELSE Dispatch(Tail(keys), ApplyKey(Head(keys), st))

\* set_error and clear_error end in _update_footer, which rebuilds the
\* layout and primes every panel with empty content.
PrimedLayout == [k \in PanelKeys |-> Blank]

\* get_renderable: the centred "Waiting for data" text until the data is
\* ready, the layout afterwards.
Loading == [kind |-> "loading"]
Shown(lay) == [kind |-> "layout", panels |-> lay]
get_renderableLoadingOnError ==
    IF ~_data_ready \/ _error_message # "None" THEN Loading ELSE Shown(layout)
get_renderable == IF ~_data_ready THEN Loading ELSE Shown(layout)


\* ------------------------------------------------------ _data_fetcher
\* get_next_refresh_time
get_next_refresh_timeFromStart(last) ==
    StartTime + ((now - StartTime) \div refresh_interval + 1) * refresh_interval
get_next_refresh_time(last) == last + refresh_interval

\* sleep_time = max(0.1, next_refresh - time.time())
sleep_timeFixed(last) == refresh_interval
sleep_time(last) == Max(MinSleep, get_next_refresh_time(last) - now)

\* if not shutdown_event.is_set() and not dashboard.is_paused()
MayFetchIgnoringPause == ~shutdown_event
MayFetchIgnoringShutdown == ~_paused
MayFetch == ~shutdown_event /\ ~_paused

\* A sleep until w has ended.
Due(w) == clock => now >= w

\* Two sleeps of the same length that end at the same time end in the
\* order they were started; otherwise either may end first.
TimerTurn(task) ==
    ~(/\ clock
      /\ schedPc = "sleep" /\ uiPc = "sleep"
      /\ schedWake = uiWake /\ schedDelay = UiSleep
      /\ lastTimer = task)

\* The top of the while loop: leave when shutdown is set, else sleep.
SchedLoopForever ==
    /\ schedPc' = "sleep"
    /\ schedWake' = now + sleep_time(_last_refresh_time')
    /\ schedDelay' = sleep_time(_last_refresh_time')
    /\ lastTimer' = "sched"
SchedLoop ==
    IF shutdown_event
    THEN /\ schedPc' = "done"
         /\ schedWake' = 0
         /\ schedDelay' = 0
         /\ UNCHANGED lastTimer
    ELSE /\ schedPc' = "sleep"
         /\ schedWake' = now + sleep_time(_last_refresh_time')
         /\ schedDelay' = sleep_time(_last_refresh_time')
         /\ lastTimer' = "sched"

\* The task's first step: the initial refresh up to its first await. The
\* task was created by printscreen and first runs when printscreen suspends.
SchedInitial ==
    /\ schedPc = "created"
    /\ uiPc # "run"
    /\ RefreshEnter(Sched)
    /\ schedPc' = "initial"
    /\ UNCHANGED <<clock, stdin, key_listener, _active, readers,
                   now, _error_message, uiVars, layout, shutdown_event,
                   schedWake, schedDelay, uiPc, uiWake, lastTimer, _queue,
                   _escape_buffer, typed, keyVars>>

\* clear_error() after a refresh that returned, set_error(...) in the
\* except clause of the initial fetch or of the loop.
ErrorAfterNeverCleared(ok, pc) ==
    IF ok THEN _error_message
    ELSE IF pc = "initial" THEN "Error fetching initial data"
    ELSE "Error fetching data"
ErrorAfter(ok, pc) ==
    IF ok THEN "None"
    ELSE IF pc = "initial" THEN "Error fetching initial data"
    ELSE "Error fetching data"

\* The fetches of the scheduler's cycle end: refresh returns or raises,
\* then clear_error or set_error, then the loop sleeps or ends.
SchedFetchDoneResumes(res) ==
    /\ schedPc \in {"initial", "fetch"}
    /\ RefreshFinish(Sched, res)
    /\ hist' = HistEnd(hist, res, Sched)
    /\ _error_message' = ErrorAfter(RefreshOk(res, cycleOf[Sched]), schedPc)
    /\ layout' = PrimedLayout
    /\ SchedLoop
    /\ _paused' = FALSE
    /\ UNCHANGED <<clock, stdin, key_listener, _active, readers,
                   now, _show_help, _edit_mode,
                   _selected_row, shutdown_event, uiPc, uiWake, _queue,
                   _escape_buffer, typed, keyVars>>
SchedFetchDone(res) ==
    /\ schedPc \in {"initial", "fetch"}
    /\ RefreshFinish(Sched, res)
    /\ hist' = HistEnd(hist, res, Sched)
    /\ _error_message' = ErrorAfter(RefreshOk(res, cycleOf[Sched]), schedPc)
    /\ layout' = PrimedLayout
    /\ SchedLoop
    /\ UNCHANGED <<clock, stdin, key_listener, _active, readers,
                   now, uiVars, shutdown_event, uiPc, uiWake, _queue,
                   _escape_buffer, typed, keyVars>>

\* The sleep ends: a cycle starts unless shutdown is set or the dashboard
\* is paused; a skipped cycle goes round the loop.
SchedWakeSkipStamps ==
    /\ schedPc = "sleep"
    /\ Due(schedWake)
    /\ TimerTurn("sched")
    /\ IF MayFetch
       THEN /\ RefreshEnter(Sched)
            /\ schedPc' = "fetch"
            /\ schedWake' = 0
            /\ schedDelay' = 0
            /\ UNCHANGED lastTimer
       ELSE /\ _last_refresh_time' = now
            /\ UNCHANGED <<_cached_data, _data_lock, _data_ready,
                           _is_refreshing, refreshPc, cycleOf, cycles,
                           fetchDue>>
            /\ SchedLoop
            /\ hist' = [hist EXCEPT !.skipped = @ \/ ~shutdown_event]
    /\ UNCHANGED <<clock, stdin, key_listener, _active, readers,
                   now, _error_message, uiVars, layout, shutdown_event,
                   uiPc, uiWake, _queue, _escape_buffer, typed, keyVars>>
SchedWake ==
    /\ schedPc = "sleep"
    /\ Due(schedWake)
    /\ TimerTurn("sched")
    /\ IF MayFetch
       THEN /\ RefreshEnter(Sched)
            /\ schedPc' = "fetch"
            /\ schedWake' = 0
            /\ schedDelay' = 0
            /\ UNCHANGED lastTimer
       ELSE /\ UNCHANGED dashVars
            /\ SchedLoop
            /\ hist' = [hist EXCEPT !.skipped = @ \/ ~shutdown_event]
    /\ UNCHANGED <<clock, stdin, key_listener, _active, readers,
                   now, _error_message, uiVars, layout, shutdown_event,
                   uiPc, uiWake, _queue, _escape_buffer, typed, keyVars>>

\* ------------------------------------------------ printscreen, tick loop
\* The raw characters typed at the dashboard.
InputChars ==
    IF clock THEN {"p", "q"}
    ELSE {"p", "q", "e", "h"}

\* sys.stdin of an interactive run: a terminal, on a loop with add_reader.
Terminal == [isatty |-> TRUE, add_reader |-> "ok"]

\* What the event loop's add_reader may be: there and working, missing
\* (not callable), or raising NotImplementedError.
Readers == {"ok", "missing", "NotImplementedError"}

\* KeyListener.start: False when add_reader is missing or not implemented.
start(stream) == stream.add_reader = "ok"

\* create_key_listener: None unless stdin is a terminal and start succeeds.
create_key_listenerAlways(stream) == "listener"
create_key_listener(stream) ==
    IF ~stream.isatty THEN "None"
    ELSE IF start(stream) THEN "listener"
    ELSE "None"

\* The reader table after create_key_listener: the callback is registered
\* when start succeeded.
Registered(ok) ==
    [attached |-> ok, added |-> IF ok THEN 1 ELSE 0, removed |-> 0]

\* KeyListener.stop on the listener l = [active, readers]: remove_reader
\* only if _active, then _active = False.
stopAlwaysRemoves(l) ==
    [active |-> FALSE,
     readers |-> [l.readers EXCEPT !.attached = FALSE, !.removed = @ + 1]]
stop(l) ==
    [active |-> FALSE,
     readers |-> IF l.active
                 THEN [l.readers EXCEPT !.attached = FALSE, !.removed = @ + 1]
                 ELSE l.readers]

\* The listener as stop finds it.
Listener == [active |-> _active, readers |-> readers]

\* KeyListener._on_input_ready: one character is read and queued. The
\* callback runs between steps of the tasks, after the scheduler's start;
\* it is registered only by a listener that started.
OnInputReady(ch) ==
    /\ readers.attached
    /\ uiPc \in {"sleep", "join"}
    /\ schedPc # "created"
    /\ clock => typed < MaxInput
    /\ Len(_queue) < MaxQueue
    /\ _queue' = Append(_queue, ch)
    /\ typed' = IF clock THEN typed + 1 ELSE typed
    /\ UNCHANGED <<clock, stdin, key_listener, _active, readers,
                   now, dashVars, _error_message, uiVars, layout,
                   shutdown_event, schedPc, schedWake, schedDelay, uiPc,
                   uiWake, lastTimer, _escape_buffer, keyVars, hist>>

\* One iteration of the tick loop: update_ui unless paused outside edit
\* mode, then _handle_key_events on the drained queue, then the sleep.
TickState ==
    IF _edit_mode \/ ~_paused THEN update_ui(UiState) ELSE UiState

\* KeyListener.drain: get_nowait until the queue is empty, each unit
\* appended to the list returned.
RECURSIVE DrainLoop(_, _)
DrainLoop(q, drained) ==
    IF q = <<>> THEN [drained |-> drained, queue |-> q]
    ELSE DrainLoop(Tail(q), Append(drained, Head(q)))
drainNewestFirst(q) ==
    [drained |-> [i \in 1..Len(q) |-> q[Len(q) + 1 - i]], queue |-> <<>>]
drain(q) == DrainLoop(q, <<>>)

\* _handle_key_events: drain, parse_keys, then the dispatch loop.
HandleKeyEvents(parsed, st) ==
    [ui |-> Dispatch(parsed.keys, st), buf |-> parsed.buf]

UiTick ==
    /\ \/ uiPc = "run"
       \/ uiPc = "sleep" /\ Due(uiWake) /\ TimerTurn("ui")
    /\ ~shutdown_event
    /\ \E r \in {IF key_listener # "None"
                THEN HandleKeyEvents(
                        parse_keys(_escape_buffer, drain(_queue).drained),
                        TickState)
                ELSE [ui |-> TickState, buf |-> _escape_buffer]} :
          /\ _show_help' = r.ui.help
          /\ _paused' = r.ui.paused
          /\ _edit_mode' = r.ui.edit
          /\ _selected_row' = r.ui.sel
          /\ shutdown_event' = r.ui.quit
          /\ layout' = r.ui.layout
          /\ _escape_buffer' = r.buf
          /\ hist' = [hist EXCEPT !.resumedAt =
                        IF _paused /\ ~r.ui.paused /\ hist.skipped /\ ~r.ui.quit
                        THEN now ELSE @]
    /\ _queue' = IF key_listener # "None" THEN drain(_queue).queue ELSE _queue
    /\ uiPc' = "sleep"
    /\ uiWake' = now + UiSleep
    /\ lastTimer' = "ui"
    /\ UNCHANGED <<clock, stdin, key_listener, _active, readers,
                   now, dashVars, _error_message, schedPc, schedWake,
                   schedDelay, typed, keyVars>>

\* The loop condition fails: printscreen awaits the fetch task.
UiExit ==
    /\ uiPc = "sleep" /\ Due(uiWake) /\ TimerTurn("ui")
    /\ shutdown_event
    /\ uiPc' = "join"
    /\ UNCHANGED <<clock, stdin, key_listener, _active, readers,
                   now, dashVars, _error_message, uiVars, layout,
                   shutdown_event, schedPc, schedWake, schedDelay, uiWake,
                   lastTimer, _queue, _escape_buffer, typed, keyVars, hist>>

\* The fetch task has ended: printscreen returns through its finally,
\* which stops the listener if there is one.
UiJoinNoAwait ==
    /\ uiPc = "join"
    /\ uiPc' = "done"
    /\ \E l \in {IF key_listener # "None" THEN stop(Listener) ELSE Listener} :
          _active' = l.active /\ readers' = l.readers
    /\ UNCHANGED <<clock, stdin, key_listener,
                   now, dashVars, _error_message, uiVars, layout,
                   shutdown_event, schedPc, schedWake, schedDelay, uiWake,
                   lastTimer, _queue, _escape_buffer, typed, keyVars, hist>>
UiJoin ==
    /\ uiPc = "join"
    /\ schedPc = "done"
    /\ uiPc' = "done"
    /\ \E l \in {IF key_listener # "None" THEN stop(Listener) ELSE Listener} :
          _active' = l.active /\ readers' = l.readers
    /\ UNCHANGED <<clock, stdin, key_listener,
                   now, dashVars, _error_message, uiVars, layout,
                   shutdown_event, schedPc, schedWake, schedDelay, uiWake,
                   lastTimer, _queue, _escape_buffer, typed, keyVars, hist>>

\* ------------------------------------------------------------------ time
\* The clock advances when no task is ready to run: no sleep has ended and
\* the running cycle's fetches may still take time.
Tick ==
    /\ clock
    /\ now < StartTime + Horizon
    /\ cycles < MaxCycles \/ refreshPc[Sched] = "fetching"
    /\ uiPc # "run" /\ schedPc # "created"
    /\ uiPc = "sleep" => now < uiWake
    /\ schedPc = "sleep" => now < schedWake
    /\ refreshPc[Sched] = "fetching" => now < fetchDue
    /\ uiPc # "done"
    /\ now' = now + 1
    /\ UNCHANGED <<clock, stdin, key_listener, _active, readers,
                   dashVars, _error_message, uiVars, layout, shutdown_event,
                   schedPc, schedWake, schedDelay, uiPc, uiWake, lastTimer,
                   _queue, _escape_buffer, typed, keyVars, hist>>

\* ------------------------------------------------------- specifications
InitHist ==
    [pausedAtStart |-> FALSE, startedAt |-> "none", skippedBefore |-> FALSE,
     resumeGap |-> NoTime, skipped |-> FALSE, resumedAt |-> NoTime,
     lastOutcome |-> "none", lastEnd |-> NoTime, lastCycle |-> 0,
     carried |-> FALSE,
     lastGood |-> [k \in PanelKeys |-> Absent],
     before |-> [help |-> FALSE, paused |-> FALSE, edit |-> FALSE, sel |-> 0]]

\* Dashboard.__init__, KeyListener.__init__ and the start of printscreen.
InitDash ==
    /\ now = StartTime
    /\ _cached_data = [k \in PanelKeys |-> Absent]
    /\ _data_lock = [locked |-> FALSE, waiters |-> <<>>, woken |-> {}]
    /\ _data_ready = FALSE
    /\ _last_refresh_time = 0
    /\ _is_refreshing = FALSE
    /\ _error_message = "None"
    /\ _show_help = FALSE
    /\ _paused = FALSE
    /\ _edit_mode = FALSE
    /\ _selected_row = 0
    /\ layout = PrimedLayout
    /\ shutdown_event = FALSE
    /\ refreshPc = [c \in AllCallers |-> "idle"]
    /\ cycleOf = [c \in AllCallers |-> 0]
    /\ cycles = 0
    /\ fetchDue = 0
    /\ schedPc = "created"
    /\ schedWake = 0
    /\ schedDelay = 0
    /\ uiPc = "run"
    /\ uiWake = 0
    /\ lastTimer = "ui"
    /\ _queue = <<>>
    /\ _escape_buffer = <<>>
    /\ typed = 0
    /\ hist = InitHist

Init ==
    /\ clock = FALSE
    /\ stdin = Terminal
    /\ key_listener = create_key_listener(stdin)
    /\ _active = (key_listener # "None")
    /\ readers = Registered(key_listener # "None")
    /\ InitDash
    /\ input = <<>>
    /\ pos = 0
    /\ keysOut = <<>>

Next ==
    \/ SchedInitial
    \/ \E res \in FetchResults : SchedFetchDone(res)
    \/ SchedWake
    \/ \E ch \in InputChars : OnInputReady(ch)
    \/ UiTick
    \/ UiExit
    \/ UiJoin

\* The dashboard with time left out.
Spec == Init /\ [][Next]_vars

\* The same on any input source: a terminal or not, with any add_reader.
InitAnyInput ==
    /\ clock = FALSE
    /\ stdin \in [isatty : BOOLEAN, add_reader : Readers]
    /\ key_listener = create_key_listener(stdin)
    /\ _active = (key_listener # "None")
    /\ readers = Registered(key_listener # "None")
    /\ InitDash
    /\ input = <<>>
    /\ pos = 0
    /\ keysOut = <<>>

SpecAnyInput == InitAnyInput /\ [][Next]_vars

InitTimed ==
    /\ clock = TRUE
    /\ stdin = Terminal
    /\ key_listener = create_key_listener(stdin)
    /\ _active = (key_listener # "None")
    /\ readers = Registered(key_listener # "None")
    /\ InitDash
    /\ input = <<>>
    /\ pos = 0
    /\ keysOut = <<>>

NextTimed ==
    \/ SchedInitial
    \/ \E res \in FetchResults : SchedFetchDone(res)
    \/ SchedWake
    \/ \E ch \in InputChars : OnInputReady(ch)
    \/ UiTick
    \/ UiExit
    \/ UiJoin
    \/ Tick

\* The dashboard with its clock.
SpecTimed == InitTimed /\ [][NextTimed]_vars


\* --------------------------------- concurrent callers of Dashboard.refresh
CallRefresh(c) ==
    /\ RefreshEnter(c)
    /\ UNCHANGED <<clock, stdin, key_listener, _active, readers,
                   now, _error_message, uiVars, layout, shutdown_event,
                   schedPc, schedWake, schedDelay, uiPc, uiWake, lastTimer,
                   _queue, _escape_buffer, typed, keyVars>>

CallerResume(c) ==
    /\ LockResume(c)
    /\ UNCHANGED <<clock, stdin, key_listener, _active, readers,
                   now, _error_message, uiVars, layout, shutdown_event,
                   schedPc, schedWake, schedDelay, uiPc, uiWake, lastTimer,
                   _queue, _escape_buffer, typed, keyVars>>

CallerFetchDone(c, res) ==
    /\ RefreshFinish(c, res)
    /\ hist' = HistEnd(hist, res, c)
    /\ UNCHANGED <<clock, stdin, key_listener, _active, readers,
                   now, _error_message, uiVars, layout, shutdown_event,
                   schedPc, schedWake, schedDelay, uiPc, uiWake, lastTimer,
                   _queue, _escape_buffer, typed, keyVars>>

NextCallers ==
    \/ \E c \in Callers : CallRefresh(c)
    \/ \E c \in Callers : CallerResume(c)
    \/ \E c \in Callers, res \in FetchResults : CallerFetchDone(c, res)

\* Any number of tasks calling refresh on one Dashboard.
SpecCallers == Init /\ [][NextCallers]_vars

\* ------------------------------------- edit mode among refresh cycles
\* The characters a terminal sends for one key press: three for an arrow
\* key, one for any other key.
Keystroke(k) ==
    CASE k = "UP" -> <<ESC, "[", "A">> [] k = "DOWN" -> <<ESC, "[", "B">>
      [] k = "RIGHT" -> <<ESC, "[", "C">> [] k = "LEFT" -> <<ESC, "[", "D">>
      [] OTHER -> <<k>>

EditKeys == {"e", "UP", "DOWN", "\r"}

\* _on_input_ready, once for each character of a key press, all of them
\* before the next iteration of the tick loop.
OnKeystroke(k) ==
    /\ readers.attached
    /\ uiPc \in {"sleep", "join"}
    /\ schedPc # "created"
    /\ _queue = <<>>
    /\ _queue' = Keystroke(k)
    /\ UNCHANGED <<clock, stdin, key_listener, _active, readers,
                   now, dashVars, _error_message, uiVars, layout,
                   shutdown_event, schedPc, schedWake, schedDelay, uiPc,
                   uiWake, lastTimer, _escape_buffer, typed, keyVars, hist>>

\* Cycles whose settings payload has any number of rows up to MaxSettings.
EditResults ==
    [raised : {FALSE}, status : StatusResults, settings : 0..MaxSettings,
     recov : {1}, reloc : {1}]

NextEdit ==
    \/ SchedInitial
    \/ \E res \in EditResults : SchedFetchDone(res)
    \/ SchedWake
    \/ \E k \in EditKeys : OnKeystroke(k)
    \/ UiTick

\* The dashboard, time left out, with the keys of edit mode.
SpecEdit == Init /\ [][NextEdit]_vars

\* ------------------------------------------ one batch of key presses
\* The key presses the dispatcher tells apart; the upper-case letters and
\* an unmapped key.
CommandKeys == {"e", "h", "p", "q", "UP", "DOWN", "\r"}
LoneKeys == {"E", "H", "P", "Q", "x", "\n"}

\* Batches of up to MaxBatch key presses; the keys of LoneKeys come alone.
Batches ==
    (SeqsUpTo(CommandKeys, MaxBatch) \ {<<>>}) \cup {<<k>> : k \in LoneKeys}

\* The characters of a batch of key presses, as drain() returns them.
RECURSIVE Chars(_)
Chars(keys) ==
    IF keys = <<>> THEN <<>> ELSE Keystroke(Head(keys)) \o Chars(Tail(keys))

\* The dashboard somewhere in its run, between two cycles: any UI state,
\* a snapshot with any number of settings rows or none yet, and a batch of
\* key presses waiting in the queue. hist.before keeps the UI state.
InitDispatch ==
    /\ clock = FALSE
    /\ stdin = Terminal
    /\ key_listener = create_key_listener(stdin)
    /\ _active = (key_listener # "None")
    /\ readers = Registered(key_listener # "None")
    /\ now = StartTime
    /\ _show_help \in BOOLEAN
    /\ _paused \in BOOLEAN
    /\ _edit_mode \in BOOLEAN
    /\ _selected_row \in 0..(MaxSettings - 1)
    /\ \E n \in 0..MaxSettings, ready \in BOOLEAN :
          /\ _data_ready = ready
          /\ _cached_data =
                IF ready
                THEN [k \in PanelKeys |->
                        IF k = "status" THEN Payload(1, 1, TRUE)
                        ELSE IF k = "settings" THEN Payload(1, n, FALSE)
                        ELSE Payload(1, 1, FALSE)]
                ELSE [k \in PanelKeys |->
                        IF k = "status" THEN Payload(1, 0, FALSE)
                        ELSE IF k = "settings" THEN Payload(1, n, FALSE)
                        ELSE Payload(1, 1, FALSE)]
          /\ _last_refresh_time = IF ready THEN now ELSE 0
          /\ _error_message = IF ready THEN "None"
                              ELSE "Error fetching initial data"
          /\ hist = [InitHist EXCEPT
                       !.lastOutcome = IF ready THEN "ok" ELSE "failed",
                       !.lastEnd = now,
                       !.lastCycle = 1,
                       !.before = [help |-> _show_help, paused |-> _paused,
                                   edit |-> _edit_mode, sel |-> _selected_row]]
    /\ _data_lock = [locked |-> FALSE, waiters |-> <<>>, woken |-> {}]
    /\ _is_refreshing = FALSE
    /\ layout = PrimedLayout
    /\ shutdown_event = FALSE
    /\ refreshPc = [c \in AllCallers |-> "idle"]
    /\ cycleOf = [c \in AllCallers |-> IF c = Sched THEN 1 ELSE 0]
    /\ cycles = 1
    /\ fetchDue = 0
    /\ schedPc = "sleep"
    /\ schedWake = 0
    /\ schedDelay = 0
    /\ uiPc = "sleep"
    /\ uiWake = 0
    /\ lastTimer = "sched"
    /\ \E b \in Batches : input = Chars(b) /\ _queue = Chars(b)
    /\ _escape_buffer = <<>>
    /\ typed = 0
    /\ pos = 0
    /\ keysOut = <<>>

NextDispatch ==
    \/ UiTick
    \/ UiExit

\* One iteration of the tick loop on a batch of key presses.
SpecDispatch == InitDispatch /\ [][NextDispatch]_vars

\* ------------------------------------------------------------ shutdown
QuitKeys == {"q", "p"}

NextQuit ==
    \/ SchedInitial
    \/ \E res \in FetchResults : SchedFetchDone(res)
    \/ SchedWake
    \/ \E k \in QuitKeys : OnKeystroke(k)
    \/ UiTick
    \/ UiExit
    \/ UiJoin

\* The dashboard, time left out, with the quit and pause keys. Every sleep
\* ends, every fetch returns or raises (aiohttp bounds a request by its
\* timeout), and the loop runs each task that is ready.
SpecQuit ==
    /\ Init
    /\ [][NextQuit]_vars
    /\ WF_vars(SchedInitial)
    /\ WF_vars(\E res \in FetchResults : SchedFetchDone(res))
    /\ WF_vars(SchedWake)
    /\ WF_vars(UiTick)
    /\ WF_vars(UiExit)
    /\ WF_vars(UiJoin)

\* ------------------------------------- every key command, with refreshes
NextOwners ==
    \/ SchedInitial
    \/ \E res \in FetchResults : SchedFetchDone(res)
    \/ SchedWake
    \/ \E k \in CommandKeys : OnKeystroke(k)
    \/ UiTick
    \/ UiExit
    \/ UiJoin

\* The dashboard, time left out, one key press per tick, every command key.
SpecOwners == Init /\ [][NextOwners]_vars

\* ------------------------------------------ the listener's queue alone
\* _on_input_ready: one unit is read and queued; at end of input read(1)
\* gives "" and nothing is queued. input keeps the units read so far,
\* typed counts the callbacks run.
InputReadyQueuesAny(ch) ==
    /\ readers.attached
    /\ typed < MaxLen
    /\ typed' = typed + 1
    /\ _queue' = Append(_queue, ch)
    /\ input' = IF ch = "" THEN input ELSE Append(input, ch)
    /\ UNCHANGED <<clock, stdin, key_listener, _active, readers,
                   now, dashVars, _error_message,
                   uiVars, layout, shutdown_event, schedPc, schedWake,
                   schedDelay, uiPc, uiWake, lastTimer, _escape_buffer, pos,
                   keysOut, hist>>
InputReady(ch) ==
    /\ readers.attached
    /\ typed < MaxLen
    /\ typed' = typed + 1
    /\ _queue' = IF ch = "" THEN _queue ELSE Append(_queue, ch)
    /\ input' = IF ch = "" THEN input ELSE Append(input, ch)
    /\ UNCHANGED <<clock, stdin, key_listener, _active, readers,
                   now, dashVars, _error_message,
                   uiVars, layout, shutdown_event, schedPc, schedWake,
                   schedDelay, uiPc, uiWake, lastTimer, _escape_buffer, pos,
                   keysOut, hist>>

\* One call of drain(): keysOut gathers what the calls return, pos counts
\* the calls that returned something.
DrainCall ==
    /\ \E r \in {drain(_queue)} :
          /\ keysOut' = keysOut \o r.drained
          /\ _queue' = r.queue
          /\ pos' = IF r.drained = <<>> THEN pos ELSE pos + 1
    /\ UNCHANGED <<clock, stdin, key_listener, _active, readers,
                   now, dashVars, _error_message, uiVars, layout,
                   shutdown_event, schedPc, schedWake, schedDelay, uiPc,
                   uiWake, lastTimer, _escape_buffer, typed, input, hist>>

NextDrain ==
    \/ \E ch \in KeyChars \cup {""} : InputReady(ch)
    \/ DrainCall

\* Readiness callbacks and drains in any order.
SpecDrain == Init /\ [][NextDrain]_vars

\* --------------------------------------- the listener started and stopped
\* KeyListener.__init__ on any stdin: not active, nothing registered.
InitListener ==
    /\ clock = FALSE
    /\ stdin \in [isatty : BOOLEAN, add_reader : Readers]
    /\ key_listener = "listener"
    /\ _active = FALSE
    /\ readers = Registered(FALSE)
    /\ InitDash
    /\ input = <<>>
    /\ pos = 0
    /\ keysOut = <<>>

\* KeyListener.start: add_reader and _active = True, or False returned.
StartCall ==
    /\ readers.added < MaxStarts
    /\ IF start(stdin)
       THEN /\ _active' = TRUE
            /\ readers' = [readers EXCEPT !.attached = TRUE, !.added = @ + 1]
       ELSE UNCHANGED <<_active, readers>>
    /\ UNCHANGED <<clock, stdin, key_listener, now, dashVars, _error_message,
                   uiVars, layout, shutdown_event, schedPc, schedWake,
                   schedDelay, uiPc, uiWake, lastTimer, _queue, _escape_buffer,
                   typed, keyVars, hist>>

\* KeyListener.stop
StopCall ==
    /\ readers.removed <= MaxStarts
    /\ _active' = stop(Listener).active
    /\ readers' = stop(Listener).readers
    /\ UNCHANGED <<clock, stdin, key_listener, now, dashVars, _error_message,
                   uiVars, layout, shutdown_event, schedPc, schedWake,
                   schedDelay, uiPc, uiWake, lastTimer, _queue, _escape_buffer,
                   typed, keyVars, hist>>

NextListener ==
    \/ StartCall
    \/ StopCall
    \/ \E ch \in {"x", "A", ""} : InputReady(ch)
    \/ DrainCall

\* start, stop, readiness callbacks and drains in any order.
SpecListener == InitListener /\ [][NextListener]_vars

\* ------------------------------------------------- the key decoder alone

InitKeys ==
    /\ clock = FALSE
    /\ stdin = Terminal
    /\ key_listener = create_key_listener(stdin)
    /\ _active = (key_listener # "None")
    /\ readers = Registered(key_listener # "None")
    /\ InitDash
    /\ input \in SeqsUpTo(KeyChars, MaxLen)
    /\ pos = 0
    /\ keysOut = <<>>

\* The next n characters of the input are drained and handed to parse_keys.
ParseBatch(n) ==
    /\ pos + n <= Len(input)
    /\ \E r \in {parse_keys(_escape_buffer, SubSeq(input, pos + 1, pos + n))} :
          /\ keysOut' = keysOut \o r.keys
          /\ _escape_buffer' = r.buf
    /\ pos' = pos + n
    /\ hist' = [hist EXCEPT !.carried = @ \/ (_escape_buffer # <<>> /\ n > 0)]
    /\ UNCHANGED <<clock, stdin, key_listener, _active, readers,
                   now, dashVars, _error_message, uiVars, layout,
                   shutdown_event, schedPc, schedWake, schedDelay, uiPc, uiWake,
                   lastTimer, _queue, typed, input>>

NextKeys == \E n \in 0..MaxLen : ParseBatch(n)

\* parse_keys called on the consecutive batches of any raw sequence.
SpecKeys == InitKeys /\ [][NextKeys]_vars


\* ================================================================ claims
CycleRunning == refreshPc[Sched] = "fetching"

\* C1: a refresh cycle that fails, by a raising fetch or by a status
\* payload that is empty or has no cluster_name, leaves every entry of
\* _cached_data as it was before the cycle.
C1_FailedCycleKeepsSnapshot ==
    [][(hist'.lastCycle # hist.lastCycle /\ hist'.lastOutcome = "failed")
          => _cached_data' = _cached_data]_vars

\* C2: after a successful cycle all four entries of _cached_data are the
\* payloads that cycle fetched; none is left from an earlier cycle.
C2_SuccessReplacesAllFour ==
    hist.lastOutcome = "ok" =>
        \A k \in PanelKeys :
            _cached_data[k].kind = "data" /\ _cached_data[k].cycle = hist.lastCycle

C2_Witness ==
    /\ hist.lastOutcome = "ok"
    /\ hist.lastCycle = 2
    /\ \A k \in PanelKeys : _cached_data[k].cycle = 2

\* C3: the panels one pass of update_ui draws never mix the payloads of two
\* refresh cycles, however the scheduler and the tick loop interleave.
C3_NoTornSnapshot ==
    \A j, k \in PanelKeys :
        (layout[j].kind = "data" /\ layout[k].kind = "data")
            => layout[j].cycle = layout[k].cycle

C3_Witness ==
    /\ \A k \in PanelKeys : layout[k].kind = "data" /\ layout[k].cycle = 2
    /\ hist.lastCycle = 2

\* C4: at most one caller of refresh is between the start of its panel
\* fetches and the end of its cycle.
C4_OneCycleAtATime ==
    Cardinality({c \in AllCallers : refreshPc[c] = "fetching"}) <= 1

C4_Witness ==
    \E c, d \in Callers :
        /\ refreshPc[c] = "fetching"
        /\ refreshPc[d] = "waiting"
        /\ cycles = 2

\* C5: parse_keys called on the consecutive batches of a character sequence
\* gives, put together, the key events and the pending buffer of one call
\* on the sequence read so far.
C5_BatchesDecodeAsWhole ==
    /\ keysOut = parse_keys(<<>>, SubSeq(input, 1, pos)).keys
    /\ _escape_buffer = parse_keys(<<>>, SubSeq(input, 1, pos)).buf

C5_Witness ==
    /\ hist.carried
    /\ pos = Len(input)
    /\ input = <<"x", ESC, "[", "A">>
    /\ keysOut = <<"x", "UP">>

\* C6, as claimed: ESC [ A/B/C/D give UP/DOWN/RIGHT/LEFT, and ESC [ X with
\* any other X gives the key ESC followed by "[" and X as plain keys.
IsArrowChar(ch) == ch \in {"A", "B", "C", "D"}
ExpectedArrow(ch) ==
    IF ch = "A" THEN "UP" ELSE IF ch = "B" THEN "DOWN"
    ELSE IF ch = "C" THEN "RIGHT" ELSE "LEFT"
WholeTriple == Len(input) = 3 /\ pos = 3 /\ input[1] = ESC /\ input[2] = "["

C6_AsClaimed ==
    WholeTriple =>
        IF IsArrowChar(input[3]) THEN keysOut = <<ExpectedArrow(input[3])>>
        ELSE keysOut = <<ESC, "[", input[3]>>

\* C6, amended: ESC [ A/B/C/D give exactly UP/DOWN/RIGHT/LEFT; ESC [ X
\* with any other X gives the key ESC, then "[", then X as a plain key,
\* unless X is ESC itself, which is kept in the pending buffer.
C6_ArrowsAndFallback ==
    WholeTriple =>
        IF IsArrowChar(input[3])
        THEN keysOut = <<ExpectedArrow(input[3])>> /\ _escape_buffer = <<>>
        ELSE IF input[3] = ESC
        THEN keysOut = <<ESC, "[">> /\ _escape_buffer = <<ESC>>
        ELSE keysOut = <<ESC, "[", input[3]>> /\ _escape_buffer = <<>>

C6_Witness ==
    /\ WholeTriple
    /\ input[3] = "x"
    /\ keysOut = <<ESC, "[", "x">>

\* C7: after a failed attempt the scheduler starts no attempt before one
\* refresh interval has passed since that attempt ended.
C7_NoFasterRetryAfterFailure ==
    (CycleRunning /\ hist.lastOutcome = "failed")
        => hist.startedAt \in {"on time", "late"}

\* C8: after a successful cycle, with the dashboard not paused when the
\* deadline comes, the scheduler sleeps until one refresh interval after
\* the cycle's completion and starts the next cycle then.
C8_NextCycleOneIntervalAfterCompletion ==
    /\ (schedPc = "sleep" /\ hist.lastOutcome = "ok" /\ ~hist.skipped)
          => (schedWake = hist.lastEnd + refresh_interval /\ now <= schedWake)
    /\ (CycleRunning /\ hist.lastOutcome = "ok" /\ ~hist.skippedBefore)
          => hist.startedAt = "on time"

C8_Witness ==
    /\ CycleRunning
    /\ hist.lastOutcome = "ok"
    /\ ~hist.skippedBefore
    /\ hist.startedAt = "on time"
    /\ fetchDue = now + MaxFetch
    /\ (now - StartTime) % refresh_interval # 0

\* C9: no refresh cycle starts while the dashboard is paused; a scheduler
\* that wakes while paused goes back to sleep without a fetch.
C9_NoCycleStartsPaused == CycleRunning => ~hist.pausedAtStart

C9_Witness ==
    /\ _paused
    /\ hist.skipped
    /\ schedPc = "sleep"
    /\ refreshPc[Sched] = "idle"
    /\ cycles = 1

\* C10: when the deadline passed while the dashboard was paused, the
\* scheduler starts a fetch within one poll step (MinSleep) of the moment
\* the pause is cleared, unless shutdown is raised.
C10_ResumeFetchesWithinPollStep ==
    /\ (hist.resumedAt # NoTime /\ ~shutdown_event)
          => now <= hist.resumedAt + MinSleep
    /\ (CycleRunning /\ hist.resumeGap # NoTime)
          => hist.resumeGap <= MinSleep

C10_Witness ==
    /\ CycleRunning
    /\ hist.resumeGap # NoTime
    /\ hist.lastOutcome = "ok"
    /\ now >= _last_refresh_time + refresh_interval

\* A step that ends a refresh cycle, and one that ends it successfully.
CycleEnds == hist'.lastCycle # hist.lastCycle
CycleSucceeds == CycleEnds /\ hist'.lastOutcome = "ok"

\* C11: the data-ready flag is a one-way latch: false at the start, it
\* becomes true exactly in the step that completes a successful refresh
\* cycle, and no step of any kind sets it back to false.
C11_DataReadyLatch ==
    /\ ~_data_ready
    /\ [][/\ _data_ready => _data_ready'
          /\ CycleSucceeds => _data_ready'
          /\ (~_data_ready /\ _data_ready') => CycleSucceeds]_vars

C11_Witness ==
    /\ _data_ready
    /\ hist.lastOutcome = "failed"
    /\ hist.lastCycle = 2
    /\ _error_message = "Error fetching data"

\* The error message is None unless the last attempt failed.
ErrorMatchesOutcome == _error_message = "None" <=> hist.lastOutcome # "failed"

\* C12: after every attempt of the scheduler the error message is set when
\* the attempt failed and None when it succeeded, and no step between two
\* attempts changes it.
C12_ErrorFollowsLastAttempt ==
    /\ ErrorMatchesOutcome
    /\ [][/\ ErrorMatchesOutcome'
          /\ ~CycleEnds => _error_message' = _error_message]_vars

C12_Witness ==
    /\ hist.lastOutcome = "failed"
    /\ _error_message = "Error fetching initial data"
    /\ schedPc = "sleep"
    /\ uiPc = "sleep"
    /\ _paused

\* C13: while edit mode is active and the settings snapshot has N > 0
\* rows, the selected row index lies in 0..N-1, whatever refresh cycles and
\* key commands came before.
C13_SelectionInRange ==
    (_edit_mode /\ SettingsRows > 0)
        => (0 <= _selected_row /\ _selected_row < SettingsRows)

\* In SpecDispatch: the tick has handled the batch of key presses.
BatchDone == input # <<>> /\ _queue = <<>>

Downs(k) == [i \in 1..k |-> "DOWN"]

UiFieldsKept ==
    /\ _show_help = hist.before.help
    /\ _paused = hist.before.paused
    /\ _edit_mode = hist.before.edit
    /\ _selected_row = hist.before.sel

\* C15: with edit mode inactive or with zero settings rows,
\* move_selection_up and move_selection_down change nothing: not the
\* selected row and no other field, neither called directly nor reached
\* through an UP or DOWN key press.
C15_MoveIsNoOpOutsideEdit ==
    /\ (~_edit_mode \/ SettingsRows = 0) =>
          /\ move_selection_up(UiState) = UiState
          /\ move_selection_down(UiState) = UiState
    /\ (/\ BatchDone
        /\ input \in {Keystroke("UP"), Keystroke("DOWN")}
        /\ ~hist.before.edit \/ SettingsRows = 0) =>
          /\ UiFieldsKept
          /\ ~shutdown_event
          /\ layout = TickState.layout

C15_Witness ==
    /\ BatchDone
    /\ input = Keystroke("UP")
    /\ hist.before.edit
    /\ hist.before.sel = 1
    /\ SettingsRows = 0
    /\ _edit_mode
    /\ _selected_row = 1

\* C16: every change of edit mode from false to true sets the selected row
\* to 0, whatever row an earlier edit session left; toggling edit mode off
\* leaves it false.
C16_EnteringEditResetsRow ==
    /\ IF _edit_mode THEN ~toggle_edit_mode(UiState).edit
       ELSE toggle_edit_mode(UiState).edit /\ toggle_edit_mode(UiState).sel = 0
    /\ (BatchDone /\ input \in {<<"e">>, <<"E">>}) =>
          IF hist.before.edit THEN ~_edit_mode
          ELSE _edit_mode /\ _selected_row = 0
    /\ (/\ BatchDone
        /\ ~shutdown_event
        /\ input[Len(input)] = "e"
        /\ _edit_mode) => _selected_row = 0

C16_Witness ==
    /\ BatchDone
    /\ input = <<"e">>
    /\ ~hist.before.edit
    /\ hist.before.sel = 1
    /\ _edit_mode
    /\ _selected_row = 0

\* C17: a confirm key (carriage return) handled while edit mode is active
\* leaves edit mode false, whatever the snapshot and the cursor; handled
\* while edit mode is inactive it changes no state.
C17_ConfirmLeavesEdit ==
    [][(_queue = Keystroke("\r") /\ _queue' = <<>>) =>
          IF _edit_mode THEN ~_edit_mode'
          ELSE UNCHANGED <<uiVars, shutdown_event, _cached_data>>]_vars

\* In SpecDispatch: the key events of the batch, and the state the
\* dispatcher found: the UI fields as they were, after the tick's update_ui.
BatchKeys == parse_keys(<<>>, input).keys
BeforeState ==
    LET st == [help |-> hist.before.help, paused |-> hist.before.paused,
               edit |-> hist.before.edit, sel |-> hist.before.sel,
               quit |-> FALSE, layout |-> PrimedLayout, renders |-> <<>>]
    IN IF st.edit \/ ~st.paused THEN update_ui(st) ELSE st

\* The events of a batch before its first quit key, and the effect of
\* events applied one after the other in the order given.
IsQuit(k) == k \in {"q", "Q"}
UpToQuit(keys) ==
    LET qs == {i \in 1..Len(keys) : IsQuit(keys[i])}
    IN IF qs = {} THEN keys
       ELSE SubSeq(keys, 1, (CHOOSE i \in qs : \A j \in qs : i <= j) - 1)
RECURSIVE InOrder(_, _)
InOrder(keys, st) ==
    IF keys = <<>> THEN st ELSE InOrder(Tail(keys), ApplyKey(Head(keys), st))

\* C18: the key events of a batch are applied in arrival order; when the
\* batch holds a quit key, exactly the events before it are applied, the
\* shutdown signal is raised and no later event of the batch has an effect.
C18_BatchInOrderUpToQuit ==
    BatchDone =>
        \E keys \in {BatchKeys} :
        \E expected \in {InOrder(UpToQuit(keys), BeforeState)} :
           /\ _show_help = expected.help
           /\ _paused = expected.paused
           /\ _edit_mode = expected.edit
           /\ _selected_row = expected.sel
           /\ shutdown_event = (\E i \in 1..Len(keys) : IsQuit(keys[i]))

C18_Witness ==
    /\ BatchDone
    /\ input = Chars(<<"e", "q", "p">>)
    /\ ~hist.before.edit
    /\ ~hist.before.paused
    /\ _edit_mode
    /\ ~_paused
    /\ shutdown_event

\* C19: handling a key event, the dispatcher asks for a render
\* (live.update) exactly when the event changed the visible UI state: help,
\* paused, edit mode or selected row.
C19_RenderIffVisibleChange ==
    [][(_queue # <<>> /\ _queue' = <<>>) =>
          HandleKeyEvents(parse_keys(_escape_buffer, _queue), TickState).ui.renders
              = <<uiVars' # uiVars>>]_vars

\* The UI fields and the shutdown signal are those of the state st.
UiIs(st) ==
    /\ _show_help = st.help
    /\ _paused = st.paused
    /\ _edit_mode = st.edit
    /\ _selected_row = st.sel
    /\ shutdown_event = st.quit

\* C20: an upper-case H, P, E or Q has, from any UI state, the effect of the
\* lower-case letter; the arrow events UP and DOWN are never taken for a
\* letter command: they leave help, pause, edit mode and shutdown alone.
C20_LettersIgnoreCase ==
    BatchDone =>
        /\ input = <<"H">> => UiIs(Dispatch(<<"h">>, BeforeState))
        /\ input = <<"P">> => UiIs(Dispatch(<<"p">>, BeforeState))
        /\ input = <<"E">> => UiIs(Dispatch(<<"e">>, BeforeState))
        /\ input = <<"Q">> => UiIs(Dispatch(<<"q">>, BeforeState))
        /\ input \in {Keystroke("UP"), Keystroke("DOWN")} =>
              /\ _show_help = hist.before.help
              /\ _paused = hist.before.paused
              /\ _edit_mode = hist.before.edit
              /\ ~shutdown_event

C20_Witness ==
    /\ BatchDone
    /\ input = <<"P">>
    /\ ~hist.before.paused
    /\ _paused
    /\ ~shutdown_event

\* What the drains returned and what is still queued make up the arrivals.
DrainedThenQueued == keysOut \o _queue = input

\* C21: drain returns everything queued since the previous drain, in
\* arrival order, and leaves the queue empty: over all callbacks and
\* drains, the results of the drains put together are the arrivals, each
\* unit returned once.
C21_DrainReturnsArrivalsInOrder ==
    /\ DrainedThenQueued
    /\ [][/\ DrainedThenQueued'
          /\ keysOut' # keysOut =>
                (_queue' = <<>> /\ keysOut' = keysOut \o _queue)]_vars

C21_Witness ==
    /\ pos = 2
    /\ input = <<ESC, "[", "A">>
    /\ keysOut = <<ESC, "[">>
    /\ _queue = <<"A">>

\* C22: once a quit key has raised the shutdown signal, the tick loop
\* exits, the scheduler task ends, and printscreen returns, never before
\* the scheduler task has ended.
C22_ShutdownEndsBothTasks ==
    /\ [](uiPc = "done" => schedPc = "done")
    /\ shutdown_event ~> (uiPc = "done" /\ schedPc = "done")

C22_Witness ==
    /\ shutdown_event
    /\ uiPc = "done"
    /\ schedPc = "done"
    /\ hist.lastCycle = 2

\* C23: a cycle in flight when a quit raises the shutdown signal ends
\* before printscreen returns: printscreen has never returned while a
\* cycle is between its start and its end.
C23_NoReturnMidCycle ==
    uiPc = "done" => (shutdown_event /\ ~CycleRunning /\ ~_is_refreshing)

C23_Witness ==
    /\ shutdown_event
    /\ uiPc = "join"
    /\ CycleRunning
    /\ hist.lastCycle = 1

\* C24: no task is suspended at an await (its fetches in flight) while it
\* holds _data_lock.
C24_NoSuspendHoldingLock ==
    \A c \in AllCallers : ~(refreshPc[c] = "fetching" /\ _data_lock.locked)

\* The step ends a cycle of the scheduler whose fetches all returned and
\* whose status payload is empty or has no cluster_name.
InvalidStatusCycleEnds ==
    /\ CycleEnds
    /\ _cached_data'["status"].cycle = hist'.lastCycle
    /\ ~ValidData(_cached_data')

\* C25: a cycle whose status payload is empty or lacks cluster_name ends
\* as a cycle whose fetch raised: refresh raises, the cycle neither sets
\* _data_ready nor stamps _last_refresh_time, and the scheduler sets the
\* error message.
C25_InvalidStatusIsFailure ==
    [][InvalidStatusCycleEnds =>
          /\ hist'.lastOutcome = "failed"
          /\ _data_ready' = _data_ready
          /\ _last_refresh_time' = _last_refresh_time
          /\ _error_message' = ErrorAfter(FALSE, schedPc)
          /\ _error_message' # "None"
          /\ ~_is_refreshing'
          /\ ~_data_lock'.locked]_vars

C25_Witness ==
    /\ hist.lastOutcome = "failed"
    /\ hist.lastCycle = 2
    /\ _cached_data["status"].cycle = 2
    /\ ~ValidData(_cached_data)
    /\ _data_ready
    /\ _error_message = "Error fetching data"

\* stdin is not a terminal, or the listener could not register a reader.
NoKeyInput == ~stdin.isatty \/ stdin.add_reader # "ok"

\* C26: when stdin is not a terminal or add_reader is unsupported, there
\* is no key listener; the tick loop and the scheduler go on, nothing is
\* ever queued or dispatched, and help, paused, edit mode and the selected
\* row keep their initial values.
C26_NoListenerNoKeys ==
    NoKeyInput =>
        /\ key_listener = "None"
        /\ _queue = <<>>
        /\ _escape_buffer = <<>>
        /\ ~_show_help /\ ~_paused /\ ~_edit_mode /\ _selected_row = 0
        /\ ~shutdown_event
        /\ uiPc \in {"run", "sleep"}
        /\ schedPc # "done"
        /\ ~hist.skipped

C26_Witness ==
    /\ NoKeyInput
    /\ hist.lastCycle = 2
    /\ hist.lastOutcome = "ok"
    /\ layout["status"] = _cached_data["status"]
    /\ _cached_data["status"].cycle = 2

\* The last cycle failed after some cycle had succeeded, and the tick loop
\* has drawn a frame since.
FrameAfterFailure ==
    /\ hist.lastOutcome = "failed"
    /\ ValidData(hist.lastGood)
    /\ ~CycleRunning
    /\ ~shutdown_event
    /\ uiPc = "sleep"
    /\ lastTimer = "ui"

\* C27: after a failed cycle that follows a successful one, every frame
\* until the next success shows in its panels the last successfully fetched
\* snapshot (the status panel may show the help instead while help is on)
\* and the error banner, whatever paused, help and edit are.
C27_FailureKeepsLastGoodOnScreen ==
    FrameAfterFailure =>
        /\ _error_message # "None"
        /\ \A k \in PanelKeys :
              \/ layout[k] = hist.lastGood[k]
              \/ k = "status" /\ _show_help /\ layout[k] = HelpPanel

\* The characters a key event stands for, and those of a list of events.
ExpandKey(k) ==
    CASE k = "UP" -> <<ESC, "[", "A">>
      [] k = "DOWN" -> <<ESC, "[", "B">>
      [] k = "RIGHT" -> <<ESC, "[", "C">>
      [] k = "LEFT" -> <<ESC, "[", "D">>
      [] OTHER -> <<k>>

RECURSIVE Expand(_)
Expand(keys) ==
    IF keys = <<>> THEN <<>> ELSE ExpandKey(Head(keys)) \o Expand(Tail(keys))

\* The key events the step's call of parse_keys returned.
NewKeys == SubSeq(keysOut', Len(keysOut) + 1, Len(keysOut'))

\* C28: after any calls of parse_keys the pending buffer is empty, [ESC] or
\* [ESC, "["], and a call that finds the buffer filled parses the buffered
\* characters first, ahead of the characters it is given.
C28_BufferIsOnePrefixConsumedFirst ==
    /\ _escape_buffer = <<>>
    /\ [][/\ _escape_buffer' \in {<<>>, <<ESC>>, <<ESC, "[">>}
          /\ (_escape_buffer # <<>> /\ pos' > pos) =>
                /\ Expand(NewKeys) \o _escape_buffer'
                      = _escape_buffer \o SubSeq(input, pos + 1, pos')
                /\ NewKeys # <<>> => Head(Expand(NewKeys)) = ESC]_vars

C28_Witness ==
    /\ input = <<ESC, "[", "x", ESC>>
    /\ pos = 3
    /\ hist.carried
    /\ keysOut = <<ESC, "[", "x">>
    /\ _escape_buffer = <<>>

\* C29: the decoder drops no character: the key events returned so far,
\* expanded back to characters (UP, DOWN, RIGHT, LEFT to ESC [ A, B, C, D,
\* any other event to itself), followed by the pending buffer, are exactly
\* the characters given to parse_keys so far.
C29_NoCharacterDropped ==
    Expand(keysOut) \o _escape_buffer = SubSeq(input, 1, pos)

C29_Witness ==
    /\ input = <<ESC, "[", "B", ESC>>
    /\ pos = 4
    /\ hist.carried
    /\ keysOut = <<"DOWN">>
    /\ _escape_buffer = <<ESC>>

\* The scheduler's sleep ends while the dashboard is paused and the loop
\* goes back to sleep: a scheduled cycle is skipped.
SkipStep ==
    /\ schedPc = "sleep" /\ schedPc' = "sleep"
    /\ _paused /\ ~shutdown_event
    /\ \/ schedWake' # schedWake
       \/ hist'.skipped # hist.skipped

\* C30: skipping a scheduled cycle because the dashboard is paused leaves
\* the snapshot, the last-refresh timestamp and with it the next deadline,
\* the data-ready latch and the error message as they were.
C30_SkipChangesNothing ==
    [][SkipStep =>
          /\ _cached_data' = _cached_data
          /\ _last_refresh_time' = _last_refresh_time
          /\ get_next_refresh_time(_last_refresh_time')
                = get_next_refresh_time(_last_refresh_time)
          /\ _data_ready' = _data_ready
          /\ _error_message' = _error_message
          /\ cycles' = cycles
          /\ ~_is_refreshing'
          /\ layout' = layout]_vars

C30_Witness ==
    /\ _paused
    /\ hist.skipped
    /\ schedPc = "sleep"
    /\ lastTimer = "sched"
    /\ _data_ready
    /\ now >= get_next_refresh_time(_last_refresh_time)
    /\ schedWake = now + MinSleep

\* The tick handles a batch that is the one key press k.
Handles(k) == _queue = Keystroke(k) /\ _queue' = <<>> /\ _escape_buffer = <<>>

\* C31: the help key flips _show_help and leaves paused, edit mode, the
\* selected row, the error message and the snapshot as they were; with
\* help shown and edit mode active, UP, DOWN and Enter act on edit mode
\* and the selected row as they do with help hidden: UP and DOWN move the
\* cursor and Enter on a selected setting leaves edit mode.
C31_HelpTogglesOnlyHelp ==
    [][/\ (Handles("h") \/ Handles("H")) =>
             /\ _show_help' = ~_show_help
             /\ UNCHANGED <<_paused, _edit_mode, _selected_row, _error_message,
                            _cached_data, _data_ready, _last_refresh_time>>
       /\ \A k \in {"UP", "DOWN", "\r"} :
             (Handles(k) /\ _show_help /\ _edit_mode) =>
                /\ _show_help'
                /\ \E off \in {Dispatch(<<k>>, [TickState EXCEPT !.help = FALSE])} :
                      _edit_mode' = off.edit /\ _selected_row' = off.sel
                /\ HasSelectedSetting(UiState) =>
                      /\ k = "UP" =>
                            /\ _edit_mode'
                            /\ _selected_row' = (_selected_row - 1) % SettingsRows
                      /\ k = "DOWN" =>
                            /\ _edit_mode'
                            /\ _selected_row' = (_selected_row + 1) % SettingsRows
                      /\ k = "\r" => ~_edit_mode']_vars

C31_Witness ==
    /\ BatchDone
    /\ hist.before.help /\ hist.before.edit
    /\ hist.before.sel = 1
    /\ SettingsRows = 2
    /\ input = Keystroke("DOWN")
    /\ _show_help /\ _edit_mode
    /\ _selected_row = 0

\* What the scheduler writes, and the step in which the tick loop handles
\* key presses.
SnapshotKept ==
    UNCHANGED <<_cached_data, _last_refresh_time, _data_ready, _error_message>>
KeysHandled == _queue # <<>> /\ _queue' = <<>>

\* C32: no key command changes the snapshot, the last-refresh timestamp,
\* the data-ready latch or the error message; no refresh cycle and no
\* set_error or clear_error changes help, paused, edit mode or the
\* selected row.
C32_WriteOwnership ==
    [][/\ KeysHandled => SnapshotKept
       /\ (CycleEnds \/ CycleRunning' # CycleRunning \/ ~SnapshotKept)
             => UNCHANGED uiVars]_vars

C32_Witness ==
    /\ hist.lastCycle = 2
    /\ hist.lastOutcome = "failed"
    /\ _paused /\ _show_help /\ _edit_mode
    /\ _error_message = "Error fetching data"
    /\ _queue = <<>>

\* Some cycle so far has succeeded.
SomeCycleSucceeded == ValidData(hist.lastGood)

\* C33: get_renderable gives the loading state exactly while _data_ready
\* is false: as long as every cycle so far has failed it gives the loading
\* state, and from the first successful cycle on it gives the layout.
C33_LoadingIffNotReady ==
    /\ (get_renderable = Loading) <=> ~_data_ready
    /\ ~SomeCycleSucceeded => get_renderable = Loading
    /\ SomeCycleSucceeded => get_renderable = Shown(layout)

C33_Witness ==
    /\ hist.lastCycle = 2
    /\ hist.lastOutcome = "failed"
    /\ ~SomeCycleSucceeded
    /\ get_renderable = Loading
    /\ _error_message = "Error fetching data"
    /\ uiPc = "sleep" /\ lastTimer = "ui"

\* The step is one run of the readiness callback.
CallbackRuns == typed' = typed + 1

\* C34, as claimed: every run of the readiness callback makes the queue
\* one unit longer, whatever the read returned.
C34_AsClaimed ==
    [][CallbackRuns => Len(_queue') = Len(_queue) + 1]_vars

\* C34, amended: a run of the readiness callback whose read returns a
\* character appends exactly that character to the queue; a run whose
\* read returns the empty string leaves the queue as it was.
C34_OneUnitPerNonEmptyRead ==
    [][CallbackRuns =>
          IF input' # input
          THEN _queue' = Append(_queue, input'[Len(input')])
          ELSE _queue' = _queue]_vars

C34_Witness ==
    /\ typed = 3
    /\ input = <<"x", "A">>
    /\ _queue = <<"x", "A">>
    /\ keysOut = <<>>

\* C35: stop leaves the listener inactive; a second stop, or a stop of a
\* listener that never started, changes nothing more, so the callback is
\* detached at most once for each successful start; the units queued stay
\* in the queue and a later drain returns them.
C35_StopIsIdempotent ==
    /\ ~stop(Listener).active
    /\ ~stop(Listener).readers.attached
    /\ stop(stop(Listener)) = stop(Listener)
    /\ ~_active => stop(Listener) = Listener
    /\ _active <=> readers.attached
    /\ readers.removed <= readers.added
    /\ DrainedThenQueued

C35_Witness ==
    /\ ~_active
    /\ readers = [attached |-> FALSE, added |-> 1, removed |-> 1]
    /\ input = <<"x", "A">>
    /\ keysOut = <<"x", "A">>
    /\ _queue = <<>>
    /\ pos = 1

\* The step starts a refresh cycle; the step ends the scheduler's sleep.
CycleStarts == cycles' # cycles
SleepEnds == schedPc = "sleep" /\ schedPc' # "sleep"

\* C36: no refresh cycle starts once shutdown is raised: a scheduler whose
\* sleep ends with shutdown set starts no fetch and leaves its loop, and
\* the scheduler task ends only with shutdown set.
C36_NoCycleAfterShutdown ==
    /\ schedPc # "done"
    /\ [][/\ CycleStarts => (~shutdown_event /\ ~shutdown_event')
          /\ (SleepEnds /\ shutdown_event) =>
                (schedPc' = "done" /\ ~CycleStarts /\ ~CycleRunning')
          /\ schedPc' = "done" => shutdown_event']_vars

C36_Witness ==
    /\ shutdown_event
    /\ schedPc = "done"
    /\ uiPc = "join"
    /\ ~_paused
    /\ _data_ready
    /\ cycles = 1
    /\ hist.lastOutcome = "ok"

\* Some call of Dashboard.refresh has started and not yet returned or
\* raised.
RefreshInProgress == \E c \in AllCallers : refreshPc[c] # "idle"

\* C37: _is_refreshing is true exactly in the states in which some call
\* of refresh is in progress, however many callers overlap.
C37_FlagTracksRefreshInProgress == _is_refreshing <=> RefreshInProgress

\* C38: a failed cycle releases _data_lock and resets _is_refreshing, so
\* between cycles the lock is free and the flag is down, and the cycle
\* after a failed one acquires the lock.
C38_FailureReleasesLock ==
    /\ ~_data_lock.locked /\ ~_is_refreshing
    /\ [][/\ (CycleEnds /\ hist'.lastOutcome = "failed") =>
                /\ ~_data_lock'.locked
                /\ ~_is_refreshing'
                /\ refreshPc'[Sched] = "idle"
          /\ ~CycleRunning' => (~_data_lock'.locked /\ ~_is_refreshing')
          /\ (CycleStarts /\ hist.lastOutcome = "failed") =>
                (_data_lock'.locked /\ CycleRunning')]_vars

C38_Witness ==
    /\ hist.lastOutcome = "failed"
    /\ hist.lastCycle = 1
    /\ cycles = 2
    /\ CycleRunning
    /\ _data_lock.locked
    /\ _is_refreshing

\* C39: while the dashboard is paused with edit mode inactive the displayed
\* panels do not change, whatever happens, a cycle that commits included;
\* only a step with edit mode active or paused false draws new panel data.
C39_PausedPanelsFrozen ==
    [][(_paused /\ ~_edit_mode /\ _data_ready /\ UNCHANGED uiVars)
          => layout' = layout]_vars

====
